---- MODULE Spec2Model ----
(***************************************************************************)
(* Model of src/subcode/mod.rs: parsing and classification of CD           *)
(* subchannel data.  The functions of the module are operators over byte   *)
(* sequences; the state machine is a caller that builds one input, invokes *)
(* one public entry point on it and then queries the value it got back.    *)
(***************************************************************************)
EXTENDS Integers, Sequences, FiniteSets

VARIABLES entry, arg, pc, result, sector_calls, from_index_calls,
          done, basic, channels, empty

vars == <<entry, arg, pc, result, sector_calls, from_index_calls,
          done, basic, channels, empty>>

(* ------------------------------------------------------------------ *)
(* Sizes fixed by the program, and the bounds of the explored inputs. *)
(* ------------------------------------------------------------------ *)
SectorSize == 96
ChannelSize == 12
MaxByte == 255

MaxLen == 193
MaxSectors == 2

(* ------------------------------------------------------------------ *)
(* Result, Option and the error enum.                                 *)
(* ------------------------------------------------------------------ *)
Ok(v) == [tag |-> "Ok", value |-> v]
Err(e) == [tag |-> "Err", error |-> e]
Some(v) == [some |-> TRUE, value |-> v]
None == [some |-> FALSE]

InvalidSubcodeDataLength(n) == [kind |-> "InvalidSubcodeDataLength", length |-> n]
InvalidSubcodeIndex(i) == [kind |-> "InvalidSubcodeIndex", index |-> i]
InvalidSectorLength(n) == [kind |-> "InvalidSectorLength", length |-> n]

SubcodeType == {"P", "Q", "R", "S", "T", "U", "V", "W"}

(* ------------------------------------------------------------------ *)
(* slice::chunks(n): consecutive chunks of n elements, the last one   *)
(* shorter when the length is not a multiple of n.                    *)
(* ------------------------------------------------------------------ *)
RECURSIVE chunks_droplast(_, _)
chunks_droplast(s, n) ==
    IF Len(s) <= n THEN <<>>
    ELSE <<SubSeq(s, 1, n)>> \o chunks_droplast(SubSeq(s, n + 1, Len(s)), n)

RECURSIVE chunks(_, _)
chunks(s, n) ==
    IF Len(s) = 0 THEN <<>>
    ELSE IF Len(s) <= n THEN <<s>>
    ELSE <<SubSeq(s, 1, n)>> \o chunks(SubSeq(s, n + 1, Len(s)), n)

(* ------------------------------------------------------------------ *)
(* SubcodeType::from_index                                            *)
(* ------------------------------------------------------------------ *)
SubcodeType_from_index_swapped(index) ==
    CASE index = 0 -> Some("Q")
      [] index = 1 -> Some("P")
      [] index = 2 -> Some("R")
      [] index = 3 -> Some("S")
      [] index = 4 -> Some("T")
      [] index = 5 -> Some("U")
      [] index = 6 -> Some("V")
      [] index = 7 -> Some("W")
      [] OTHER -> None

SubcodeType_from_index(index) ==
    CASE index = 0 -> Some("P")
      [] index = 1 -> Some("Q")
      [] index = 2 -> Some("R")
      [] index = 3 -> Some("S")
      [] index = 4 -> Some("T")
      [] index = 5 -> Some("U")
      [] index = 6 -> Some("V")
      [] index = 7 -> Some("W")
      [] OTHER -> None

(* ------------------------------------------------------------------ *)
(* Subcode::is_empty                                                  *)
(* ------------------------------------------------------------------ *)
Subcode_is_empty_firstbyte(code) ==
    Len(code.data) = 0 \/ code.data[1] = 0

Subcode_is_empty(code) ==
    \A k \in 1..Len(code.data) : code.data[k] = 0

(* ------------------------------------------------------------------ *)
(* Sector::parse.  The run also records, in call order, the indices   *)
(* it passes to SubcodeType::from_index.                              *)
(* ------------------------------------------------------------------ *)
RECURSIVE Sector_parse_loop(_, _, _, _)
Sector_parse_loop(cs, i, codes, idx) ==
    IF cs = <<>>
    THEN [result |-> Ok([codes |-> codes]), from_index_calls |-> idx]
    ELSE LET c == SubcodeType_from_index(i)
         IN  IF c.some
             THEN Sector_parse_loop(Tail(cs), i + 1,
                      Append(codes, [channel |-> c.value, data |-> Head(cs)]),
                      Append(idx, i))
             ELSE [result |-> Err(InvalidSubcodeIndex(i)),
                   from_index_calls |-> Append(idx, i)]

Sector_parse_run_modcheck(data) ==
    IF Len(data) % SectorSize # 0
    THEN [result |-> Err(InvalidSectorLength(Len(data))), from_index_calls |-> <<>>]
    ELSE Sector_parse_loop(chunks(data, ChannelSize), 0, <<>>, <<>>)

Sector_parse_run(data) ==
    IF Len(data) # SectorSize
    THEN [result |-> Err(InvalidSectorLength(Len(data))), from_index_calls |-> <<>>]
    ELSE Sector_parse_loop(chunks(data, ChannelSize), 0, <<>>, <<>>)

Sector_parse(data) == Sector_parse_run(data).result

(* ------------------------------------------------------------------ *)
(* Sector::contains_basic_data_only                                   *)
(* ------------------------------------------------------------------ *)
Sector_contains_basic_data_only_r_to_v(sector) ==
    \A k \in 1..Len(sector.codes) :
        (sector.codes[k].channel \notin {"P", "Q", "W"})
            => Subcode_is_empty(sector.codes[k])

Sector_contains_basic_data_only(sector) ==
    \A k \in 1..Len(sector.codes) :
        (sector.codes[k].channel \notin {"P", "Q"})
            => Subcode_is_empty(sector.codes[k])

(* ------------------------------------------------------------------ *)
(* Sector::contains_data_in_channels.  The unwrap of a None panics.   *)
(* ------------------------------------------------------------------ *)
RECURSIVE Sector_channels_loop_inverted(_, _, _)
Sector_channels_loop_inverted(codes, index, identities) ==
    IF index >= Len(codes)
    THEN [panicked |-> FALSE, value |-> identities]
    ELSE IF ~Subcode_is_empty(codes[index + 1])
         THEN Sector_channels_loop_inverted(codes, index + 1, identities)
         ELSE LET c == SubcodeType_from_index(index)
              IN  IF c.some
                  THEN Sector_channels_loop_inverted(codes, index + 1,
                                                     Append(identities, c.value))
                  ELSE [panicked |-> TRUE, value |-> identities]

RECURSIVE Sector_channels_loop(_, _, _)
Sector_channels_loop(codes, index, identities) ==
    IF index >= Len(codes)
    THEN [panicked |-> FALSE, value |-> identities]
    ELSE IF Subcode_is_empty(codes[index + 1])
         THEN Sector_channels_loop(codes, index + 1, identities)
         ELSE LET c == SubcodeType_from_index(index)
              IN  IF c.some
                  THEN Sector_channels_loop(codes, index + 1,
                                            Append(identities, c.value))
                  ELSE [panicked |-> TRUE, value |-> identities]

Sector_contains_data_in_channels(sector) ==
    Sector_channels_loop(sector.codes, 0, <<>>)

(* ------------------------------------------------------------------ *)
(* SubcodeData::parse.  The run also records the buffers it passes to *)
(* Sector::parse and the indices those calls pass to from_index.      *)
(* ------------------------------------------------------------------ *)
RECURSIVE SubcodeData_parse_loop_prepend(_, _, _, _)
SubcodeData_parse_loop_prepend(cs, sectors, calls, idx) ==
    IF cs = <<>>
    THEN [result |-> Ok([sectors |-> sectors]),
          sector_calls |-> calls, from_index_calls |-> idx]
    ELSE LET r == Sector_parse_run(Head(cs))
         IN  IF r.result.tag = "Ok"
             THEN SubcodeData_parse_loop_prepend(Tail(cs),
                      <<r.result.value>> \o sectors,
                      Append(calls, Head(cs)),
                      idx \o r.from_index_calls)
             ELSE [result |-> r.result,
                   sector_calls |-> Append(calls, Head(cs)),
                   from_index_calls |-> idx \o r.from_index_calls]

RECURSIVE SubcodeData_parse_loop(_, _, _, _)
SubcodeData_parse_loop(cs, sectors, calls, idx) ==
    IF cs = <<>>
    THEN [result |-> Ok([sectors |-> sectors]),
          sector_calls |-> calls, from_index_calls |-> idx]
    ELSE LET r == Sector_parse_run(Head(cs))
         IN  IF r.result.tag = "Ok"
             THEN SubcodeData_parse_loop(Tail(cs),
                      Append(sectors, r.result.value),
                      Append(calls, Head(cs)),
                      idx \o r.from_index_calls)
             ELSE [result |-> r.result,
                   sector_calls |-> Append(calls, Head(cs)),
                   from_index_calls |-> idx \o r.from_index_calls]

SubcodeData_parse_run_unchecked(data) ==
    SubcodeData_parse_loop(chunks(data, SectorSize), <<>>, <<>>, <<>>)

SubcodeData_parse_run_remainder(data) ==
    IF Len(data) % SectorSize # 0
    THEN [result |-> Err(InvalidSubcodeDataLength(Len(data) % SectorSize)),
          sector_calls |-> <<>>, from_index_calls |-> <<>>]
    ELSE SubcodeData_parse_loop(chunks(data, SectorSize), <<>>, <<>>, <<>>)

SubcodeData_parse_run(data) ==
    IF Len(data) % SectorSize # 0
    THEN [result |-> Err(InvalidSubcodeDataLength(Len(data))),
          sector_calls |-> <<>>, from_index_calls |-> <<>>]
    ELSE SubcodeData_parse_loop(chunks(data, SectorSize), <<>>, <<>>, <<>>)

SubcodeData_parse(data) == SubcodeData_parse_run(data).result

(* ------------------------------------------------------------------ *)
(* SubcodeData::contains_basic_data_only                              *)
(* ------------------------------------------------------------------ *)
SubcodeData_contains_basic_data_only_any(sd) ==
    \E k \in 1..Len(sd.sectors) : Sector_contains_basic_data_only(sd.sectors[k])

SubcodeData_contains_basic_data_only(sd) ==
    \A k \in 1..Len(sd.sectors) : Sector_contains_basic_data_only(sd.sectors[k])

(* ------------------------------------------------------------------ *)
(* Inputs of the caller.  A byte is 0 or a non-zero u8; a sector is   *)
(* described by the set of channel positions that carry data and by   *)
(* how those channels are filled: every byte non-zero and distinct    *)
(* (fill = ChannelSize), or a single byte MaxByte at offset `fill`.   *)
(* ------------------------------------------------------------------ *)
Byte == 0..MaxByte
Ramp(p) == (p % MaxByte) + 1

MkSector(mask, fill, base) ==
    [i \in 1..SectorSize |->
        LET c == (i - 1) \div ChannelSize
            o == (i - 1) % ChannelSize
        IN  IF c \in mask /\ (fill = ChannelSize \/ fill = o)
            THEN (IF fill = ChannelSize THEN Ramp(base + i - 1) ELSE MaxByte)
            ELSE 0]

Fills == 0..ChannelSize
Masks == SUBSET (0..((SectorSize \div ChannelSize) - 1))

\* every single sector: any set of channels with data, any fill
OneSectorInputs == { MkSector(m, f, 0) : m \in Masks, f \in Fills }

\* sectors a disc is assembled from: no data, P and Q only, every channel,
\* the last byte of W only, the first byte of R only
Template(t, base) ==
    CASE t = "zero"  -> MkSector({}, ChannelSize, base)
      [] t = "basic" -> MkSector({0, 1}, ChannelSize, base)
      [] t = "full"  -> MkSector(0..7, ChannelSize, base)
      [] t = "wlast" -> MkSector({7}, ChannelSize - 1, base)
      [] t = "rfirst" -> MkSector({2}, 0, base)
Templates == {"zero", "basic", "full", "wlast", "rfirst"}

RECURSIVE MkDisc(_, _)
MkDisc(ts, base) ==
    IF ts = <<>> THEN <<>>
    ELSE Template(Head(ts), base) \o MkDisc(Tail(ts), base + SectorSize)

DiscInputs ==
    UNION { { MkDisc(ts, 0) : ts \in [1..n -> Templates] } : n \in 0..MaxSectors }

\* buffers of every length up to MaxLen, all zero or all non-zero
LengthInputs ==
    { [i \in 1..n |-> 0] : n \in 0..MaxLen } \cup
    { [i \in 1..n |-> Ramp(i - 1)] : n \in 0..MaxLen }

Buffers == OneSectorInputs \cup DiscInputs \cup LengthInputs

\* Subcodes a caller builds directly: any label on any 12-byte block that is
\* zero, full, or zero but for one byte
Blocks ==
    { [i \in 1..ChannelSize |-> 0], [i \in 1..ChannelSize |-> Ramp(i - 1)] } \cup
    { [i \in 1..ChannelSize |-> IF i = k THEN v ELSE 0] :
          k \in 1..ChannelSize, v \in {1, MaxByte} }

Subcodes == { [channel |-> c, data |-> d] : c \in SubcodeType, d \in Blocks }

(* ------------------------------------------------------------------ *)
(* The caller.                                                        *)
(* ------------------------------------------------------------------ *)
NoResult == [tag |-> "None"]
NoChannels == [panicked |-> FALSE, value |-> <<>>]

Init ==
    /\ entry \in {"SubcodeData", "Sector", "Subcode"}
    /\ arg \in (IF entry = "Subcode" THEN Subcodes ELSE Buffers)
    /\ pc = "call"
    /\ result = NoResult
    /\ sector_calls = <<>>
    /\ from_index_calls = <<>>
    /\ done = {}
    /\ basic = FALSE
    /\ channels = NoChannels
    /\ empty = FALSE

\* SubcodeData::parse(arg)
Call_SubcodeData_parse ==
    /\ pc = "call" /\ entry = "SubcodeData"
    /\ LET r == SubcodeData_parse_run(arg)
       IN  /\ result' = r.result
           /\ sector_calls' = r.sector_calls
           /\ from_index_calls' = r.from_index_calls
    /\ pc' = "returned"
    /\ UNCHANGED <<entry, arg, done, basic, channels, empty>>

\* Sector::parse(arg)
Call_Sector_parse ==
    /\ pc = "call" /\ entry = "Sector"
    /\ LET r == Sector_parse_run(arg)
       IN  /\ result' = r.result
           /\ from_index_calls' = r.from_index_calls
    /\ pc' = "returned"
    /\ UNCHANGED <<entry, arg, sector_calls, done, basic, channels, empty>>

\* arg.is_empty() on a Subcode the caller built
Call_Subcode_is_empty ==
    /\ pc = "call" /\ entry = "Subcode"
    /\ empty' = Subcode_is_empty(arg)
    /\ pc' = "returned"
    /\ UNCHANGED <<entry, arg, result, sector_calls, from_index_calls,
                   done, basic, channels>>

\* contains_basic_data_only() on the SubcodeData that parse returned
Call_SubcodeData_contains_basic_data_only ==
    /\ pc = "returned" /\ entry = "SubcodeData" /\ result.tag = "Ok"
    /\ "basic" \notin done
    /\ basic' = SubcodeData_contains_basic_data_only(result.value)
    /\ done' = done \cup {"basic"}
    /\ UNCHANGED <<entry, arg, pc, result, sector_calls, from_index_calls,
                   channels, empty>>

\* contains_basic_data_only() on the Sector that parse returned
Call_Sector_contains_basic_data_only ==
    /\ pc = "returned" /\ entry = "Sector" /\ result.tag = "Ok"
    /\ "basic" \notin done
    /\ basic' = Sector_contains_basic_data_only(result.value)
    /\ done' = done \cup {"basic"}
    /\ UNCHANGED <<entry, arg, pc, result, sector_calls, from_index_calls,
                   channels, empty>>

\* contains_data_in_channels() on the Sector that parse returned
Call_Sector_contains_data_in_channels ==
    /\ pc = "returned" /\ entry = "Sector" /\ result.tag = "Ok"
    /\ "channels" \notin done
    /\ channels' = Sector_contains_data_in_channels(result.value)
    /\ done' = done \cup {"channels"}
    /\ UNCHANGED <<entry, arg, pc, result, sector_calls, from_index_calls,
                   basic, empty>>

Next ==
    \/ Call_SubcodeData_parse
    \/ Call_Sector_parse
    \/ Call_Subcode_is_empty
    \/ Call_SubcodeData_contains_basic_data_only
    \/ Call_Sector_contains_basic_data_only
    \/ Call_Sector_contains_data_in_channels

Spec == Init /\ [][Next]_vars

TypeOK ==
    /\ pc \in {"call", "returned"}
    /\ done \subseteq {"basic", "channels"}
    /\ basic \in BOOLEAN /\ empty \in BOOLEAN
    /\ result.tag \in {"None", "Ok", "Err"}

(* ------------------------------------------------------------------ *)
(* Properties.                                                        *)
(* ------------------------------------------------------------------ *)
ChannelOrder == <<"P", "Q", "R", "S", "T", "U", "V", "W">>
Returned(e) == pc = "returned" /\ entry = e

\* C1: a buffer whose length is a multiple of 96 (0 included) parses
\* successfully into exactly length/96 sectors, and sector k is what
\* Sector.parse gives for bytes [96k, 96k+96) of the buffer.
C1_ParseYieldsSectorsInOrder ==
    (Returned("SubcodeData") /\ Len(arg) % 96 = 0) =>
        /\ result.tag = "Ok"
        /\ Len(result.value.sectors) = Len(arg) \div 96
        /\ \A k \in 0..((Len(arg) \div 96) - 1) :
              LET s == Sector_parse(SubSeq(arg, 96 * k + 1, 96 * k + 96))
              IN  s.tag = "Ok" /\ result.value.sectors[k + 1] = s.value

C1_Witness ==
    /\ Returned("SubcodeData") /\ Len(arg) = 192
    /\ result.tag = "Ok"
    /\ Len(result.value.sectors) = 2
    /\ result.value.sectors[1] # result.value.sectors[2]

\* C2: a buffer whose length is not a multiple of 96 is rejected with
\* InvalidSubcodeDataLength carrying the buffer's length, and Sector.parse
\* was never invoked.
C2_BadLengthRejectedBeforeParsing ==
    (Returned("SubcodeData") /\ Len(arg) % 96 # 0) =>
        /\ result = [tag |-> "Err",
                     error |-> [kind |-> "InvalidSubcodeDataLength",
                                length |-> Len(arg)]]
        /\ sector_calls = <<>>
        /\ from_index_calls = <<>>

C2_Witness ==
    /\ Returned("SubcodeData") /\ Len(arg) = 100
    /\ result.tag = "Err"
    /\ result.error.length = 100

\* C3: Sector.parse of 96 bytes succeeds with exactly 8 Subcodes labelled
\* P,Q,R,S,T,U,V,W in that order, the one at position i holding input bytes
\* [12i, 12i+12) unmodified.
C3_SectorParseSplitsChannels ==
    (Returned("Sector") /\ Len(arg) = 96) =>
        /\ result.tag = "Ok"
        /\ Len(result.value.codes) = 8
        /\ \A i \in 0..7 :
              result.value.codes[i + 1] =
                  [channel |-> ChannelOrder[i + 1],
                   data |-> SubSeq(arg, 12 * i + 1, 12 * i + 12)]

C3_Witness ==
    /\ Returned("Sector") /\ Len(arg) = 96
    /\ \A i \in 1..96 : arg[i] = i
    /\ result.tag = "Ok"
    /\ result.value.codes[8].data[12] = 96

\* C4: Sector.parse of a sequence whose length is not exactly 96 (0 and
\* other multiples of 12 or 96 included) fails with InvalidSectorLength
\* carrying that length.
C4_SectorBadLengthRejected ==
    (Returned("Sector") /\ Len(arg) # 96) =>
        result = [tag |-> "Err",
                  error |-> [kind |-> "InvalidSectorLength", length |-> Len(arg)]]

C4_Witness ==
    /\ Returned("Sector") /\ Len(arg) = 192
    /\ result.tag = "Err"
    /\ result.error.kind = "InvalidSectorLength"

\* C5: on a parsed Sector, contains_basic_data_only() is true exactly when
\* input bytes 24..95 (channels R..W) are all zero, whatever P and Q hold.
C5_SectorBasicIffRtoWZero ==
    (Returned("Sector") /\ "basic" \in done) =>
        (basic <=> \A i \in 25..96 : arg[i] = 0)

C5_Witness ==
    /\ Returned("Sector") /\ "basic" \in done
    /\ \A i \in 1..95 : arg[i] = 0
    /\ arg[96] # 0
    /\ basic = FALSE

\* C6: on a parsed Sector, contains_data_in_channels() does not panic and
\* returns, in channel order without duplicates, exactly the channels whose
\* 12 bytes are not all zero.
C6_ChannelsWithData ==
    (Returned("Sector") /\ "channels" \in done) =>
        /\ ~channels.panicked
        /\ channels.value =
              LET pos(c) == CHOOSE i \in 0..7 : ChannelOrder[i + 1] = c
                  hasData(c) == \E j \in (12 * pos(c) + 1)..(12 * pos(c) + 12) :
                                    arg[j] # 0
              IN  SelectSeq(ChannelOrder, hasData)

C6_Witness ==
    /\ Returned("Sector") /\ "channels" \in done
    /\ \A i \in 1..96 : (arg[i] # 0) <=> (i <= 24)
    /\ channels.value = <<"P", "Q">>

\* C7: on a parsed SubcodeData, contains_basic_data_only() is true exactly
\* when it is true of every contained sector; with no sectors it is true.
C7_DataBasicIffEverySectorBasic ==
    (Returned("SubcodeData") /\ "basic" \in done) =>
        /\ basic <=> \A k \in 1..Len(result.value.sectors) :
                        Sector_contains_basic_data_only(result.value.sectors[k])
        /\ (Len(result.value.sectors) = 0) => basic

C7_Witness ==
    /\ Returned("SubcodeData") /\ "basic" \in done
    /\ Len(result.value.sectors) = 2
    /\ Sector_contains_basic_data_only(result.value.sectors[1])
    /\ ~Sector_contains_basic_data_only(result.value.sectors[2])
    /\ basic = FALSE

\* C8: Subcode.is_empty() is true exactly when every one of the 12 bytes is
\* 0, whatever the channel label.
C8_IsEmptyIffAllZero ==
    Returned("Subcode") =>
        (empty <=> \A i \in 1..12 : arg.data[i] = 0)

C8_Witness ==
    /\ Returned("Subcode")
    /\ arg.channel = "W"
    /\ \A i \in 1..11 : arg.data[i] = 0
    /\ arg.data[12] # 0
    /\ empty = FALSE

\* C9: SubcodeData.parse ends in success or in InvalidSubcodeDataLength; every
\* buffer it hands to Sector.parse has exactly 96 bytes and every index handed
\* to from_index lies in 0..7.
C9_OnlyDataLengthErrorReachable ==
    Returned("SubcodeData") =>
        /\ result.tag = "Ok" \/ result.error.kind = "InvalidSubcodeDataLength"
        /\ \A k \in 1..Len(sector_calls) : Len(sector_calls[k]) = 96
        /\ \A k \in 1..Len(from_index_calls) : from_index_calls[k] \in 0..7

C9_Witness ==
    /\ Returned("SubcodeData")
    /\ result.tag = "Ok"
    /\ Len(sector_calls) = 2
    /\ Len(from_index_calls) = 16

\* C10: on a parsed Sector the two queries agree: contains_basic_data_only()
\* is true exactly when contains_data_in_channels() lists no channel other
\* than P and Q.
C10_QueriesAgree ==
    (Returned("Sector") /\ {"basic", "channels"} \subseteq done) =>
        (basic <=> \A k \in 1..Len(channels.value) :
                      channels.value[k] \in {"P", "Q"})

C10_Witness ==
    /\ Returned("Sector") /\ {"basic", "channels"} \subseteq done
    /\ basic = FALSE
    /\ channels.value = <<"Q", "W">>

====
